---- MODULE Spec2Model ----
(***************************************************************************)
(* Model of deepqmc/utils.py: the two container classes DebugContainer     *)
(* (with its subclass _NullDebug) and NestedDict.                          *)
(*                                                                         *)
(* Python strings are modelled as sequences of characters, so that         *)
(* str.split and str.join are computed and not assumed.  Python objects    *)
(* are modelled as records with the same fields for every type.            *)
(***************************************************************************)
EXTENDS Integers, Sequences, FiniteSets, TLC

VARIABLES
    cls,      \* class of the debug container under test
    data,     \* UserDict.data of the container: resolved key -> value
    levels,   \* DebugContainer._levels, the scope stack
    blocks,   \* the cd() context managers that are entered and not yet exited
    exc,      \* the exception that is propagating, "none" if there is none
    ret,      \* value returned by the last DebugContainer call
    nextId,   \* identity given to the next container that is created
    nops,     \* number of set/get/result/cd calls made on the container
    op,       \* the last call made on the container and what it observed
    d,        \* the NestedDict under test (an insertion-ordered mapping)
    ndret,    \* value returned by the last NestedDict call
    nderr,    \* exception raised by the last NestedDict call, "none" if none
    ndop,     \* the last call made on the NestedDict and the state before it
    ndn       \* number of calls made on the NestedDict

dcvars == <<cls, data, levels, blocks, exc, ret, nextId, nops, op>>
ndvars == <<d, ndret, nderr, ndop, ndn>>
vars == <<cls, data, levels, blocks, exc, ret, nextId, nops, op,
          d, ndret, nderr, ndop, ndn>>

(***************************************************************************)
(* Bounds of the model.                                                    *)
(***************************************************************************)
MaxOps == 4
MaxDepth == 2
MaxNdOps == 3

(***************************************************************************)
(* Strings.                                                                *)
(***************************************************************************)
Dot == "."

RECURSIVE Join(_, _)
\* sep.join(parts) for a sequence of strings
Join(sep, parts) ==
    IF parts = <<>> THEN <<>>
    ELSE IF Len(parts) = 1 THEN parts[1]
    ELSE parts[1] \o sep \o Join(sep, Tail(parts))

Digits == <<"0", "1", "2", "3", "4", "5", "6", "7", "8", "9">>

RECURSIVE IntToStr(_)
\* str(n) for a natural number n
IntToStr(n) ==
    IF n < 10 THEN <<Digits[n + 1]>>
    ELSE IntToStr(n \div 10) \o <<Digits[(n % 10) + 1]>>

(***************************************************************************)
(* Keys and values of the debug container.                                 *)
(***************************************************************************)
IntKey(n) == [t |-> "int", i |-> n, s |-> <<>>]
StrKey(str) == [t |-> "str", i |-> 0, s |-> str]

\* str(key)
Str(key) == IF key.t = "int" THEN IntToStr(key.i) ELSE key.s

IntVal(n) == [t |-> "int", n |-> n, grad |-> FALSE, dev |-> "-", id |-> 0]
Tensor(grad, dev) == [t |-> "tensor", n |-> 0, grad |-> grad, dev |-> dev, id |-> 0]
Container(c, id) == [t |-> "container", n |-> 0, grad |-> FALSE, dev |-> c, id |-> id]

\* torch.Tensor.detach and torch.Tensor.cpu
TensorDetach(v) == [v EXCEPT !.grad = FALSE]
TensorCpu(v) == [v EXCEPT !.dev = "cpu"]

Put(m, k, v) == [x \in (DOMAIN m) \cup {k} |-> IF x = k THEN v ELSE m[x]]
EmptyData == [x \in {} |-> IntVal(0)]

Outer == <<"o", "u", "t", "e", "r">>
Inner == <<"i", "n", "n", "e", "r">>
Labels == {Outer, Inner}
DebugKeys == {IntKey(3), StrKey(<<"3">>), StrKey(<<"x">>)}
DebugVals == {IntVal(1), Tensor(TRUE, "cuda")}
Classes == {"DebugContainer", "_NullDebug"}

(***************************************************************************)
(* DebugContainer                                                          *)
(***************************************************************************)
\* a key resolution that keeps an integer key whatever the scope stack
GetKeyIntAlways(lv, key) ==
    IF key.t = "int" THEN key
    ELSE StrKey(Join(<<Dot>>, lv \o <<Str(key)>>))

\* DebugContainer._getkey
GetKey(lv, key) ==
    IF key.t = "int" /\ lv = <<>> THEN key
    ELSE StrKey(Join(<<Dot>>, lv \o <<Str(key)>>))

\* the conversion applied by DebugContainer.__setitem__ before storing
Stored(val) == IF val.t = "tensor" THEN TensorCpu(TensorDetach(val)) ELSE val

\* __setitem__ as dispatched on the class of the instance
SetItemOn(c, dt, lv, key, val) ==
    IF c = "_NullDebug" THEN dt
    ELSE Put(dt, GetKey(lv, key), Stored(val))

\* DebugContainer.__getitem__: the mapping afterwards and the value returned
GetItemOn(c, dt, lv, key, id) ==
    LET k == GetKey(lv, key) IN
    IF k \in DOMAIN dt
    THEN [data |-> dt, ret |-> dt[k], created |-> FALSE]
    ELSE LET val == Container(c, id) IN
         [data |-> SetItemOn(c, dt, lv, k, val), ret |-> val, created |-> TRUE]

\* DebugContainer.result
ResultOn(dt, lv, val) == Put(dt, StrKey(Join(<<Dot>>, lv)), val)

\* a finally clause that compares the label with the top of the stack and
\* leaves the stack as it is
CdFinallyPeek(lv, label) ==
    [levels |-> lv, ok |-> label = lv[Len(lv)]]

\* the finally clause of DebugContainer.cd
CdFinally(lv, label) ==
    [levels |-> SubSeq(lv, 1, Len(lv) - 1), ok |-> label = lv[Len(lv)]]

NoOp == [name |-> "init", key |-> IntKey(0), val |-> IntVal(0),
         before |-> EmptyData, lv |-> <<>>, label |-> <<>>, saved |-> <<>>,
         inner |-> FALSE, nested |-> FALSE, exc |-> "none"]

\* every open block sits on the stack where its entry put its label
ProperlyNested ==
    /\ Len(blocks) = Len(levels)
    /\ \A i \in 1..Len(blocks) :
        /\ blocks[i].label = levels[i]
        /\ blocks[i].saved = SubSeq(levels, 1, i - 1)

SetItem(key, val) ==
    /\ exc = "none" /\ nops < MaxOps
    /\ data' = SetItemOn(cls, data, levels, key, val)
    /\ ret' = IntVal(0)
    /\ nops' = nops + 1
    /\ op' = [NoOp EXCEPT !.name = "set", !.key = key, !.val = val,
                          !.before = data, !.lv = levels]
    /\ UNCHANGED <<cls, levels, blocks, exc, nextId>>

GetItem(key) ==
    /\ exc = "none" /\ nops < MaxOps
    /\ LET r == GetItemOn(cls, data, levels, key, nextId) IN
        /\ data' = r.data
        /\ ret' = r.ret
        /\ nextId' = IF r.created THEN nextId + 1 ELSE nextId
    /\ nops' = nops + 1
    /\ op' = [NoOp EXCEPT !.name = "get", !.key = key,
                          !.before = data, !.lv = levels]
    /\ UNCHANGED <<cls, levels, blocks, exc>>

Result(val) ==
    /\ exc = "none" /\ nops < MaxOps
    /\ data' = ResultOn(data, levels, val)
    /\ ret' = val
    /\ nops' = nops + 1
    /\ op' = [NoOp EXCEPT !.name = "result", !.val = val,
                          !.before = data, !.lv = levels]
    /\ UNCHANGED <<cls, levels, blocks, exc, nextId>>

\* entering "with debug.cd(label):"
CdEnter(label) ==
    /\ exc = "none" /\ nops < MaxOps /\ Len(levels) < MaxDepth
    /\ levels' = Append(levels, label)
    /\ nops' = nops + 1
    /\ blocks' = Append(blocks, [label |-> label, saved |-> levels])
    /\ op' = [NoOp EXCEPT !.name = "cd_enter", !.label = label, !.lv = levels]
    /\ UNCHANGED <<cls, data, exc, ret, nextId>>

\* the generator of block i resumes at the finally clause
ExitBlock(i) ==
    LET b == blocks[i]
        f == CdFinally(levels, b.label) IN
    /\ levels' = f.levels
    /\ blocks' = [j \in 1..(Len(blocks) - 1) |->
                     IF j < i THEN blocks[j] ELSE blocks[j + 1]]
    /\ exc' = IF f.ok THEN exc ELSE "AssertionError"
    /\ op' = [NoOp EXCEPT !.name = "cd_exit", !.label = b.label, !.lv = levels,
                          !.saved = b.saved, !.inner = (i = Len(blocks)),
                          !.nested = ProperlyNested,
                          !.exc = exc]
    /\ UNCHANGED <<cls, data, ret, nextId, nops>>

\* the innermost with block is left, normally or by a propagating exception
CdExit ==
    /\ blocks # <<>>
    /\ ExitBlock(Len(blocks))

\* a context manager that is not the innermost one is exited
\* (cd() objects entered by interleaved generators or closed by hand)
CdExitOutOfOrder ==
    /\ exc = "none"
    /\ \E i \in 1..(Len(blocks) - 1) : ExitBlock(i)

\* the body of the innermost with block raises
BodyRaise ==
    /\ exc = "none" /\ blocks # <<>>
    /\ exc' = "Exception"
    /\ op' = [NoOp EXCEPT !.name = "raise", !.lv = levels]
    /\ UNCHANGED <<cls, data, levels, blocks, ret, nextId, nops>>

\* an except clause outside the blocks left so far handles the exception
Catch ==
    /\ exc # "none"
    /\ exc' = "none"
    /\ op' = [NoOp EXCEPT !.name = "catch", !.lv = levels]
    /\ UNCHANGED <<cls, data, levels, blocks, ret, nextId, nops>>

(***************************************************************************)
(* NestedDict                                                              *)
(*                                                                         *)
(* A dict is a sequence of entries [k, v] in insertion order with distinct *)
(* keys.  A value is an int, a plain dict or a NestedDict.                 *)
(***************************************************************************)
IntV(n) == [t |-> "int", n |-> n, m |-> <<>>]
Plain(m) == [t |-> "dict", n |-> 0, m |-> m]
Nested(m) == [t |-> "nd", n |-> 0, m |-> m]
NoneV == [t |-> "none", n |-> 0, m |-> <<>>]
Entry(k, v) == [k |-> k, v |-> v]

\* isinstance(val, dict)
IsDict(val) == val.t \in {"dict", "nd"}
\* isinstance(val, NestedDict)
IsNestedDict(val) == val.t = "nd"

\* dict.__contains__, dict.__getitem__, dict.__setitem__, dict.__delitem__
Has(m, k) == \E i \in 1..Len(m) : m[i].k = k
Idx(m, k) == CHOOSE i \in 1..Len(m) : m[i].k = k
Lookup(m, k) == m[Idx(m, k)].v
Store(m, k, v) ==
    IF Has(m, k) THEN [m EXCEPT ![Idx(m, k)] = Entry(k, v)]
    ELSE Append(m, Entry(k, v))
Remove(m, k) ==
    LET i == Idx(m, k) IN SubSeq(m, 1, i - 1) \o SubSeq(m, i + 1, Len(m))

\* index of the first dot of a string, 0 if it has none
FirstDot(str) ==
    IF \E i \in 1..Len(str) : str[i] = Dot
    THEN CHOOSE i \in 1..Len(str) :
            str[i] = Dot /\ \A j \in 1..(i - 1) : str[j] # Dot
    ELSE 0

\* NestedDict._split_key: key.split('.', 1); nested is None when some is FALSE
SplitKey(key) ==
    LET i == FirstDot(key) IN
    IF i = 0 THEN [key |-> key, some |-> FALSE, nested |-> <<>>]
    ELSE [key |-> SubSeq(key, 1, i - 1), some |-> TRUE,
          nested |-> SubSeq(key, i + 1, Len(key))]

\* "if nested_key:" is false for None and for the empty string
Truthy(sk) == sk.some /\ sk.nested # <<>>

RECURSIVE NDGetItem(_, _), NDSetItem(_, _, _), NDDelItem(_, _), NDUpdate(_, _)
RECURSIVE ItemGet(_, _), ItemSet(_, _, _), ItemDel(_, _)

\* the NestedDict val after a call r on it, with what the call returned
AfterGet(r) == [self |-> Nested(r.m), ret |-> r.ret, err |-> r.err]
AfterCall(r) == [self |-> Nested(r.m), err |-> r.err]

\* the dict m once the call r on the value stored under k has acted on it
GetThrough(m, k, r) == [m |-> Store(m, k, r.self), ret |-> r.ret, err |-> r.err]
CallThrough(m, k, r) == [m |-> Store(m, k, r.self), err |-> r.err]

\* val[key] for a stored value val
ItemGet(val, key) ==
    IF val.t = "nd" THEN AfterGet(NDGetItem(val.m, key))
    ELSE IF val.t = "dict" THEN
        IF Has(val.m, key)
        THEN [self |-> val, ret |-> Lookup(val.m, key), err |-> "none"]
        ELSE [self |-> val, ret |-> NoneV, err |-> "KeyError"]
    ELSE [self |-> val, ret |-> NoneV, err |-> "TypeError"]

\* val[key] = v for a stored value val
ItemSet(val, key, v) ==
    IF val.t = "nd" THEN AfterCall(NDSetItem(val.m, key, v))
    ELSE IF val.t = "dict" THEN
        [self |-> Plain(Store(val.m, key, v)), err |-> "none"]
    ELSE [self |-> val, err |-> "TypeError"]

\* del val[key] for a stored value val
ItemDel(val, key) ==
    IF val.t = "nd" THEN AfterCall(NDDelItem(val.m, key))
    ELSE IF val.t = "dict" THEN
        IF Has(val.m, key)
        THEN [self |-> Plain(Remove(val.m, key)), err |-> "none"]
        ELSE [self |-> val, err |-> "KeyError"]
    ELSE [self |-> val, err |-> "TypeError"]

\* a __getitem__ that raises on a missing key like dict.__getitem__
NDGetItemNoVivify(m, key) ==
    LET sk == SplitKey(key) IN
    IF ~Has(m, sk.key) THEN [m |-> m, ret |-> NoneV, err |-> "KeyError"]
    ELSE IF Truthy(sk) THEN
        GetThrough(m, sk.key, ItemGet(Lookup(m, sk.key), sk.nested))
    ELSE [m |-> m, ret |-> Lookup(m, sk.key), err |-> "none"]

\* NestedDict.__getitem__
NDGetItem(m, key) ==
    LET sk == SplitKey(key)
        present == Has(m, sk.key)
        val == IF present THEN Lookup(m, sk.key) ELSE Nested(<<>>)
        m1 == IF present THEN m ELSE Store(m, sk.key, val)
    IN IF Truthy(sk) THEN GetThrough(m1, sk.key, ItemGet(val, sk.nested))
       ELSE [m |-> m1, ret |-> val, err |-> "none"]

\* self[key][nested_key] = val, g being the call self[key]
SetThrough(g, sk, v) == CallThrough(g.m, sk.key, ItemSet(g.ret, sk.nested, v))

\* a __setitem__ that stores under the key as given
NDSetItemFlat(m, key, v) == [m |-> Store(m, key, v), err |-> "none"]

\* NestedDict.__setitem__
NDSetItem(m, key, v) ==
    LET sk == SplitKey(key) IN
    IF Truthy(sk) THEN SetThrough(NDGetItem(m, sk.key), sk, v)
    ELSE [m |-> Store(m, sk.key, v), err |-> "none"]

\* del self[key][nested_key], g being the call self[key]
DelThrough(g, sk) == CallThrough(g.m, sk.key, ItemDel(g.ret, sk.nested))

\* a __delitem__ that reaches the head through the creating self[key]
NDDelItemVivify(m, key) ==
    LET sk == SplitKey(key) IN
    IF Truthy(sk) THEN DelThrough(NDGetItem(m, sk.key), sk)
    ELSE IF Has(m, sk.key) THEN [m |-> Remove(m, sk.key), err |-> "none"]
    ELSE [m |-> m, err |-> "KeyError"]

\* NestedDict.__delitem__
NDDelItem(m, key) ==
    LET sk == SplitKey(key) IN
    IF Truthy(sk) THEN
        IF ~Has(m, sk.key) THEN [m |-> m, err |-> "KeyError"]
        ELSE CallThrough(m, sk.key, ItemDel(Lookup(m, sk.key), sk.nested))
    ELSE IF Has(m, sk.key) THEN [m |-> Remove(m, sk.key), err |-> "none"]
    ELSE [m |-> m, err |-> "KeyError"]

\* NestedDict.__init__: NestedDict(dct)
NDInit(dct) ==
    IF dct.m # <<>> THEN NDUpdate(<<>>, dct.m) ELSE [m |-> <<>>, err |-> "none"]

RECURSIVE PlainUpdate(_, _)
\* dict.update of a plain dict
PlainUpdate(m, items) ==
    IF items = <<>> THEN m
    ELSE PlainUpdate(Store(m, items[1].k, items[1].v), Tail(items))

\* child.update(val) for the value child that super().__getitem__ returned
ValueUpdate(child, val) ==
    IF child.t = "nd" THEN AfterCall(NDUpdate(child.m, val.m))
    ELSE IF child.t = "dict" THEN
        [self |-> Plain(PlainUpdate(child.m, val.m)), err |-> "none"]
    ELSE [self |-> child, err |-> "AttributeError"]

\* super().__getitem__(key).update(val), s being the statements before it
UpdateChild(s, key, val) ==
    IF s.err # "none" THEN s
    ELSE IF ~Has(s.m, key) THEN [m |-> s.m, err |-> "KeyError"]
    ELSE CallThrough(s.m, key, ValueUpdate(Lookup(s.m, key), val))

\* self[key] = NestedDict(self[key]), conv being the call NestedDict(self[key])
UpdateConvert(m, conv, key, val) ==
    IF conv.err # "none" THEN [m |-> m, err |-> conv.err]
    ELSE UpdateChild(NDSetItem(m, key, Nested(conv.m)), key, val)

\* the branch of NestedDict.update for a dict value, g being the call self[key]
UpdateEnsure(g, key, val) ==
    IF g.err # "none" THEN [m |-> g.m, err |-> g.err]
    ELSE IF IsNestedDict(g.ret) THEN
        UpdateChild([m |-> g.m, err |-> "none"], key, val)
    ELSE IF IsDict(g.ret) THEN UpdateConvert(g.m, NDInit(g.ret), key, val)
    ELSE UpdateChild(NDSetItem(g.m, key, Nested(<<>>)), key, val)

\* the body of the loop of NestedDict.update for one item of other
UpdateItem(m, key, val) ==
    IF IsDict(val) THEN UpdateEnsure(NDGetItem(m, key), key, val)
    ELSE [m |-> Store(m, key, val), err |-> "none"]

\* the loop of NestedDict.update after the item that r is the outcome of
UpdateRest(r, items) ==
    IF r.err # "none" THEN r ELSE NDUpdate(r.m, Tail(items))

\* NestedDict.update: the items of other in order, up to the first that raises
NDUpdate(m, items) ==
    IF items = <<>> THEN [m |-> m, err |-> "none"]
    ELSE UpdateRest(UpdateItem(m, items[1].k, items[1].v), items)

KeyA == <<"a">>
KeyB == <<"b">>
KeyAB == <<"a", ".", "b">>
KeyADot == <<"a", ".">>
KeyADotDot == <<"a", ".", ".">>
KeyABA == <<"a", ".", "b", ".", "a">>
NdKeys == {KeyA, KeyB, KeyAB, KeyADot, KeyADotDot, KeyABA}
NdVals == {IntV(5), Plain(<<Entry(KeyB, Plain(<<Entry(KeyA, IntV(1))>>))>>)}
Others == {
    <<Entry(KeyA, IntV(7))>>,
    <<Entry(KeyA, Plain(<<Entry(KeyA, IntV(2))>>))>>,
    <<Entry(KeyA, Plain(<<Entry(KeyB, Plain(<<Entry(KeyB, IntV(3))>>))>>)),
      Entry(KeyB, IntV(7))>>,
    <<Entry(KeyAB, IntV(7))>>,
    <<Entry(KeyAB, Plain(<<Entry(KeyA, IntV(2))>>))>> }

NoNdOp == [name |-> "init", key |-> <<>>, val |-> NoneV, other |-> <<>>,
           before |-> <<>>]

NdSet(key, val) ==
    /\ ndn < MaxNdOps
    /\ LET r == NDSetItem(d, key, val) IN
        /\ d' = r.m
        /\ nderr' = r.err
    /\ ndret' = NoneV
    /\ ndop' = [NoNdOp EXCEPT !.name = "set", !.key = key, !.val = val,
                              !.before = d]
    /\ ndn' = ndn + 1

NdGet(key) ==
    /\ ndn < MaxNdOps
    /\ LET r == NDGetItem(d, key) IN
        /\ d' = r.m
        /\ nderr' = r.err
        /\ ndret' = r.ret
    /\ ndop' = [NoNdOp EXCEPT !.name = "get", !.key = key, !.before = d]
    /\ ndn' = ndn + 1

NdDel(key) ==
    /\ ndn < MaxNdOps
    /\ LET r == NDDelItem(d, key) IN
        /\ d' = r.m
        /\ nderr' = r.err
    /\ ndret' = NoneV
    /\ ndop' = [NoNdOp EXCEPT !.name = "del", !.key = key, !.before = d]
    /\ ndn' = ndn + 1

NdUpdate(other) ==
    /\ ndn < MaxNdOps
    /\ LET r == NDUpdate(d, other) IN
        /\ d' = r.m
        /\ nderr' = r.err
    /\ ndret' = NoneV
    /\ ndop' = [NoNdOp EXCEPT !.name = "update", !.other = other, !.before = d]
    /\ ndn' = ndn + 1

DoNdSet == \E key \in NdKeys, val \in NdVals : NdSet(key, val)
DoNdGet == \E key \in NdKeys : NdGet(key)
DoNdDel == \E key \in NdKeys : NdDel(key)
DoNdUpdate == \E other \in Others : NdUpdate(other)

(***************************************************************************)
(* Properties of NestedDict                                                *)
(***************************************************************************)
HasDot(key) == \E i \in 1..Len(key) : key[i] = Dot

\* the proper prefixes of key that end just before one of its dots
DottedPrefixes(key) ==
    {SubSeq(key, 1, i - 1) : i \in {j \in 1..Len(key) : key[j] = Dot}}

RECURSIVE Segments(_)
\* the segments between the dots of key
Segments(key) ==
    IF HasDot(key)
    THEN <<SubSeq(key, 1, FirstDot(key) - 1)>>
            \o Segments(SubSeq(key, FirstDot(key) + 1, Len(key)))
    ELSE <<key>>

Keys(m) == {m[i].k : i \in 1..Len(m)}

RECURSIVE SameContent(_, _)
\* a and b hold the same content, a NestedDict counting as the dict it wraps
SameContent(a, b) ==
    IF IsDict(a) /\ IsDict(b)
    THEN /\ Keys(a.m) = Keys(b.m)
         /\ \A k \in Keys(a.m) : SameContent(Lookup(a.m, k), Lookup(b.m, k))
    ELSE a = b

RECURSIVE Merged(_, _, _)
\* new is a NestedDict that holds what old held and val does not mention, and
\* holds val's content, at every depth
Merged(old, val, new) ==
    /\ IsNestedDict(new)
    /\ IsDict(old) =>
         \A k \in Keys(old.m) \ Keys(val.m) :
            Has(new.m, k) /\ SameContent(Lookup(new.m, k), Lookup(old.m, k))
    /\ \A k \in Keys(val.m) :
         /\ Has(new.m, k)
         /\ IF IsDict(Lookup(val.m, k))
            THEN Merged(IF IsDict(old) /\ Has(old.m, k)
                        THEN Lookup(old.m, k) ELSE NoneV,
                        Lookup(val.m, k), Lookup(new.m, k))
            ELSE Lookup(new.m, k) = Lookup(val.m, k)

RECURSIVE Blocked(_, _)
\* some prefix of the dotted key holds a value that is not a NestedDict
Blocked(m, key) ==
    LET sk == SplitKey(key) IN
    /\ Truthy(sk)
    /\ Has(m, sk.key)
    /\ \/ ~IsNestedDict(Lookup(m, sk.key))
       \/ Blocked(Lookup(m, sk.key).m, sk.nested)

RECURSIVE SegmentsPresent(_, _)
\* every segment is a key of the mapping that the segments before it lead to
SegmentsPresent(val, segs) ==
    IF segs = <<>> THEN TRUE
    ELSE /\ IsDict(val)
         /\ Has(val.m, Head(segs))
         /\ SegmentsPresent(Lookup(val.m, Head(segs)), Tail(segs))

RECURSIVE RemovePath(_, _)
\* the mapping without the entry that the path of literal keys leads to
RemovePath(m, path) ==
    IF Len(path) = 1 THEN Remove(m, path[1])
    ELSE LET c == Lookup(m, path[1]) IN
         Store(m, path[1], [c EXCEPT !.m = RemovePath(c.m, Tail(path))])

RECURSIVE Addressed(_, _)
\* the entry that a key addresses: a NestedDict is entered with the part of
\* the key before its first dot, a plain dict is indexed with all that is left
\* of the key, and a key that ends in a dot addresses the entry before the dot
Addressed(m, key) ==
    LET i == FirstDot(key)
        head == IF i = 0 THEN key ELSE SubSeq(key, 1, i - 1)
        rest == IF i = 0 THEN <<>> ELSE SubSeq(key, i + 1, Len(key))
    IN IF ~Has(m, head) THEN [st |-> "missing", path |-> <<>>]
       ELSE IF rest = <<>> THEN [st |-> "found", path |-> <<head>>]
       ELSE LET c == Lookup(m, head) IN
            IF IsNestedDict(c) THEN
                LET r == Addressed(c.m, rest) IN
                [st |-> r.st, path |-> <<head>> \o r.path]
            ELSE IF IsDict(c) THEN
                IF Has(c.m, rest) THEN [st |-> "found", path |-> <<head, rest>>]
                ELSE [st |-> "missing", path |-> <<>>]
            ELSE [st |-> "notmapping", path |-> <<>>]

\* the original statement of C1: after set(k, v) on an empty NestedDict with a
\* key k that contains a dot, get(k) returns v and get of every proper dotted
\* prefix of k returns a NestedDict.
C1_RoundTrip ==
    (ndop.name = "set" /\ ndop.before = <<>> /\ HasDot(ndop.key)) =>
        /\ nderr = "none"
        /\ NDGetItem(d, ndop.key).err = "none"
        /\ NDGetItem(d, ndop.key).ret = ndop.val
        /\ \A p \in DottedPrefixes(ndop.key) :
            /\ NDGetItem(d, p).err = "none"
            /\ IsNestedDict(NDGetItem(d, p).ret)

\* C1: after set(k, v) on an empty NestedDict with a key k that contains a
\* dot, get(k) returns v and get of every proper dotted prefix p of k returns
\* a NestedDict, unless k is p followed by one final dot and p does not end in
\* a dot: then v is stored under p itself and get(p) returns v.
C1_RoundTripExceptTrailingDot ==
    (ndop.name = "set" /\ ndop.before = <<>> /\ HasDot(ndop.key)) =>
        /\ nderr = "none"
        /\ NDGetItem(d, ndop.key).err = "none"
        /\ NDGetItem(d, ndop.key).ret = ndop.val
        /\ \A p \in DottedPrefixes(ndop.key) :
            /\ NDGetItem(d, p).err = "none"
            /\ IF p \o <<Dot>> = ndop.key /\ (p = <<>> \/ p[Len(p)] # Dot)
               THEN NDGetItem(d, p).ret = ndop.val
               ELSE IsNestedDict(NDGetItem(d, p).ret)

\* set("a.b.a", 5) on an empty NestedDict, and get("a.b.a") returns 5
C1_Witness ==
    /\ ndop.name = "set" /\ ndop.before = <<>>
    /\ ndop.key = KeyABA /\ ndop.val = IntV(5)
    /\ NDGetItem(d, KeyABA).ret = IntV(5)
    /\ IsNestedDict(NDGetItem(d, KeyAB).ret)

EndsInDot(key) == key # <<>> /\ key[Len(key)] = Dot

\* the original statement of C2, for keys that do not end in a dot: get and
\* set of a key that contains a dot resolve the prefix before the first dot to
\* a NestedDict, stored under that prefix, and do not fail.
C2_PrefixAlwaysNestedDict ==
    (ndop.name \in {"get", "set"} /\ HasDot(ndop.key) /\ ~EndsInDot(ndop.key)) =>
        /\ nderr = "none"
        /\ Has(d, SplitKey(ndop.key).key)
        /\ IsNestedDict(Lookup(d, SplitKey(ndop.key).key))

\* C2: get and set of a key with a non-empty remainder after its first dot
\* create and store a NestedDict under the prefix before that dot when the
\* prefix is absent and enter the NestedDict stored there when it holds one;
\* the access does not fail unless some prefix along the key holds a value
\* that is not a NestedDict, and an access that fails changes nothing.
C2_PrefixResolution ==
    (ndop.name \in {"get", "set"} /\ Truthy(SplitKey(ndop.key))) =>
        LET h == SplitKey(ndop.key).key
            b == ndop.before IN
        /\ ~Has(b, h) =>
             (nderr = "none" /\ Has(d, h) /\ IsNestedDict(Lookup(d, h)))
        /\ (Has(b, h) /\ IsNestedDict(Lookup(b, h))) =>
             (Has(d, h) /\ IsNestedDict(Lookup(d, h)))
        /\ ~Blocked(b, ndop.key) => nderr = "none"
        /\ nderr # "none" => (Blocked(b, ndop.key) /\ d = b)

\* get("a.b") created a NestedDict under the absent prefix "a" next to "b"
C2_Witness ==
    /\ ndop.name = "get" /\ ndop.key = KeyAB
    /\ Has(ndop.before, KeyB) /\ ~Has(ndop.before, KeyA)
    /\ Has(d, KeyA) /\ IsNestedDict(Lookup(d, KeyA))
    /\ nderr = "none"

\* C3: after d.update(other), for every pair (key, value) of other whose value
\* is a mapping, d[key] is a NestedDict that holds every sub-key it held
\* before and value does not mention, at every depth, and every sub-key of
\* value with value's content.
C3_UpdateMergesRecursively ==
    ndop.name = "update" =>
        \A i \in 1..Len(ndop.other) :
            IsDict(ndop.other[i].v) =>
                LET key == ndop.other[i].k
                    old == NDGetItem(ndop.before, key)
                    new == NDGetItem(d, key)
                IN /\ nderr = "none"
                   /\ new.err = "none"
                   /\ Merged(IF old.err = "none" THEN old.ret ELSE NoneV,
                             ndop.other[i].v, new.ret)

\* C4: after d.update(other), for every pair (k, v) of other whose value is not
\* a mapping, get(k) returns v, and d.update({k: v}) leaves d as set(k, v) does.
C4_UpdateSetsDirectly ==
    ndop.name = "update" =>
        \A i \in 1..Len(ndop.other) :
            ~IsDict(ndop.other[i].v) =>
                LET k == ndop.other[i].k
                    v == ndop.other[i].v
                IN /\ nderr = "none"
                   /\ NDGetItem(d, k).err = "none"
                   /\ NDGetItem(d, k).ret = v
                   /\ Len(ndop.other) = 1 => d = NDSetItem(ndop.before, k, v).m

\* the original statement of C10, for keys that do not end in a dot: delete(k)
\* removes exactly the addressed leaf when every segment of k is present along
\* the path, and otherwise raises KeyError and leaves d unchanged.
C10_DeleteMissingRaisesKeyError ==
    (ndop.name = "del" /\ ~EndsInDot(ndop.key)) =>
        IF SegmentsPresent(Nested(ndop.before), Segments(ndop.key))
        THEN nderr = "none" /\ d = RemovePath(ndop.before, Segments(ndop.key))
        ELSE nderr = "KeyError" /\ d = ndop.before

\* C10: a delete(k) that raises leaves d unchanged at every level and creates
\* no node; it raises KeyError when k is flat and absent, when the head or a
\* later segment of k is absent from the NestedDict that is reached, and when a
\* plain dict on the path does not hold all that is left of k as one key; it
\* raises TypeError when a value on the path is not a mapping; otherwise it
\* removes exactly the addressed entry and changes no other entry, a key that
\* ends in a dot addressing the entry before that dot.
C10_DeleteFailsWithoutSideEffects ==
    ndop.name = "del" =>
        LET a == Addressed(ndop.before, ndop.key) IN
        /\ nderr # "none" => d = ndop.before
        /\ a.st = "missing" => nderr = "KeyError"
        /\ a.st = "notmapping" => nderr = "TypeError"
        /\ a.st = "found" =>
             (nderr = "none" /\ d = RemovePath(ndop.before, a.path))

\* delete("a.b.a") where "a" holds a NestedDict without "b": KeyError, and
\* nothing was created
C10_Witness ==
    /\ ndop.name = "del" /\ ndop.key = KeyABA
    /\ Has(ndop.before, KeyA) /\ IsNestedDict(Lookup(ndop.before, KeyA))
    /\ ~Has(Lookup(ndop.before, KeyA).m, KeyB)
    /\ nderr = "KeyError" /\ d = ndop.before

(***************************************************************************)
(* Properties of DebugContainer                                            *)
(***************************************************************************)
RECURSIVE ScopedPath(_, _)
\* the labels of the scope stack in push order, then the key, separated by dots
ScopedPath(S, str) ==
    IF S = <<>> THEN str ELSE Head(S) \o <<Dot>> \o ScopedPath(Tail(S), str)

\* the key of the backing mapping that the scope stack S gives to key
ResolvedKey(S, key) ==
    IF key.t = "int" /\ Len(S) = 0 THEN IntKey(key.i)
    ELSE StrKey(ScopedPath(S, Str(key)))

\* a and b are the same value, whatever graph or device a tensor lives on
SameValue(a, b) == a.t = b.t /\ a.n = b.n /\ a.id = b.id

DetachedOnHost(v) == v.t = "tensor" => (~v.grad /\ v.dev = "cpu")

\* C5: set(k, v) on a DebugContainer with scope stack S stores v under exactly
\* one key of the backing mapping, the integer k itself when k is an integer
\* and S is empty and otherwise the labels of S in push order and str(k) joined
\* with dots, and changes no other key of the mapping.
C5_SetStoresUnderResolvedKey ==
    (op.name = "set" /\ cls = "DebugContainer") =>
        LET k == ResolvedKey(op.lv, op.key) IN
        /\ DOMAIN data = (DOMAIN op.before) \cup {k}
        /\ SameValue(data[k], op.val)
        /\ \A x \in (DOMAIN data) \ {k} : data[x] = op.before[x]

\* entering "outer" then "inner" and setting "x" stored under "outer.inner.x"
C5_Witness ==
    /\ op.name = "set" /\ cls = "DebugContainer"
    /\ op.lv = <<Outer, Inner>> /\ op.key = StrKey(<<"x">>)
    /\ StrKey(Outer \o <<Dot>> \o Inner \o <<Dot, "x">>) \in DOMAIN data
    /\ IntKey(3) \in DOMAIN op.before

C6_MismatchReached ==
    /\ op.name = "cd_exit" /\ ~op.inner
    /\ op.lv[Len(op.lv)] # op.label /\ exc = "AssertionError"

\* C7: every tensor held in the backing mapping is a detached copy on the
\* host, whatever sequence of set, get, result and cd was made.
C7_StoredTensorsDetached ==
    \A k \in DOMAIN data : DetachedOnHost(data[k])

\* C8: the backing mapping of a _NullDebug stays empty under set, get and
\* result in any nesting of cd scopes, and get returns an empty _NullDebug.
C8_NullDebugStaysEmpty ==
    cls = "_NullDebug" =>
        /\ data = EmptyData
        /\ op.name = "get" => (ret.t = "container" /\ ret.dev = "_NullDebug")

\* C9: get(k) of a key whose resolved key is absent stores a new empty
\* container under exactly the resolved key of k and returns it, and get(k) of
\* a key whose resolved key is present returns the stored value and adds
\* nothing.
C9_GetStoresUnderResolvedKey ==
    (op.name = "get" /\ cls = "DebugContainer") =>
        LET k == ResolvedKey(op.lv, op.key) IN
        IF k \in DOMAIN op.before
        THEN data = op.before /\ ret = op.before[k]
        ELSE /\ ret.t = "container" /\ ret.dev = "DebugContainer"
             /\ data = Put(op.before, k, ret)

InitDebug ==
    /\ cls \in Classes
    /\ data = EmptyData
    /\ levels = <<>>
    /\ blocks = <<>>
    /\ exc = "none"
    /\ ret = IntVal(0)
    /\ nextId = 1
    /\ nops = 0
    /\ op = NoOp

InitNested ==
    /\ d = <<>>
    /\ ndret = NoneV
    /\ nderr = "none"
    /\ ndop = NoNdOp
    /\ ndn = 0

Init == InitDebug /\ InitNested

DoSetItem == \E key \in DebugKeys, val \in DebugVals : SetItem(key, val)
DoGetItem == \E key \in DebugKeys : GetItem(key)
DoResult == \E val \in DebugVals : Result(val)
DoCdEnter == \E label \in Labels : CdEnter(label)

\* recording calls made inside properly nested with blocks
NextDebug ==
    /\ \/ DoSetItem
       \/ DoGetItem
       \/ DoResult
       \/ DoCdEnter
       \/ CdExit
    /\ UNCHANGED ndvars

SpecDebug == Init /\ [][NextDebug]_vars

\* with blocks that raise, and context managers exited in any order
NextScope ==
    /\ \/ DoCdEnter
       \/ CdExit
       \/ CdExitOutOfOrder
       \/ BodyRaise
       \/ Catch
    /\ UNCHANGED ndvars

SpecScope == Init /\ [][NextScope]_vars

\* calls made on one NestedDict that starts empty
NextNested ==
    /\ \/ DoNdSet
       \/ DoNdGet
       \/ DoNdDel
       \/ DoNdUpdate
    /\ UNCHANGED dcvars

SpecNested == Init /\ [][NextNested]_vars

====
